---- MODULE Spec2Model ----
(***************************************************************************)
(* Cloudinary -> S3 migration engine: the migrator (migrate.js), the       *)
(* selective migrator (selective-migrate.js) and the verifier (verify.js). *)
(* Strings whose characters matter (identifiers, keys, staging paths) are  *)
(* sequences of one-character strings.                                     *)
(***************************************************************************)
EXTENDS Integers, Sequences, FiniteSets, TLC

(* ------------------------------ bounds --------------------------------- *)
\* command-line flags parsed per invocation
MaxArgs == 2
\* assets in the source catalog
MaxCatalog == 2
\* largest valid MIGRATION_CONCURRENCY value tried
MaxConcurrency == 2
\* largest explicit batch size (MAX_RESULTS_PER_BATCH / --max-results) tried
MaxPageCfg == 1
\* explicit identifier lists span up to this many full chunks (plus one id)
MaxChunks == 1
\* largest --sample-size tried
MaxSample == 2
\* objects at the destination when a verification pass starts
MaxObjects == 2

(* ------------------------- program constants --------------------------- *)
DefaultConcurrency == 10
DefaultMaxResults == 100
IdChunkSize == 100
VerifyPageSize == 100
\* README, MAX_RESULTS_PER_BATCH: "Assets per API call (max 500)"
CatalogPageCap == 500

(* ------------------------------ strings -------------------------------- *)
CloudinaryPrefix == <<"c", "l", "o", "u", "d", "i", "n", "a", "r", "y", "/">>
Dot == <<".">>
Slash == <<"/">>
Jpg == <<"j", "p", "g">>
Png == <<"p", "n", "g">>

(* --------------------------- source assets ----------------------------- *)
\* The asset descriptors the catalog can hold.  folder = <<>> is "no folder",
\* url = FALSE is "the descriptor has neither secure_url nor url".
AssetIds == {1, 2, 3}

Resource(i) ==
    CASE i = 1 -> [public_id |-> <<"a", "/", "b">>, format |-> Jpg,
                   folder |-> <<"a">>, bytes |-> 100, url |-> TRUE]
      [] i = 2 -> [public_id |-> <<"a", "_", "b">>, format |-> Jpg,
                   folder |-> <<>>, bytes |-> 999, url |-> TRUE]
      [] i = 3 -> [public_id |-> <<"c">>, format |-> Png,
                   folder |-> <<>>, bytes |-> 50, url |-> FALSE]
      [] OTHER -> [public_id |-> <<"d">>, format |-> Png,
                   folder |-> <<>>, bytes |-> 7, url |-> TRUE]

\* Two assets with delivery URLs and different staging paths (a_b.jpg, d.png)
StagedAssetIds == {1, 4}

\* Position of each asset's identifier in the enumeration of identifiers an
\* explicit --public-ids list is a prefix of: assets 1, 2 and 4 fall in the
\* first chunk, asset 3 in the second; every other position names an
\* identifier the catalog does not hold.
IdPosition(i) == IF i <= 2 THEN i ELSE IF i = 3 THEN IdChunkSize + 1 ELSE 3

\* The enumeration names asset 4 a second time, right after asset 3: a list
\* that reaches this position holds the same identifier in two chunks
RepeatPosition == IdChunkSize + 2
IdPositions(i) == IF i = 4 THEN {IdPosition(i), RepeatPosition} ELSE {IdPosition(i)}

(* ------------------------- destination keys ---------------------------- *)
\* migrateAsset: const s3Key = `cloudinary/${public_id}.${format}`
S3KeyByFolder(resource) ==
    IF resource.folder # <<>>
    THEN resource.folder \o Slash \o resource.public_id \o Dot \o resource.format
    ELSE CloudinaryPrefix \o resource.public_id \o Dot \o resource.format

S3Key(resource) ==
    CloudinaryPrefix \o resource.public_id \o Dot \o resource.format

\* uploadToS3: const s3Key = s3KeyOverride || `cloudinary/${public_id}.${format}`
UploadKey(resource, s3KeyOverride) ==
    IF s3KeyOverride # <<>> THEN s3KeyOverride ELSE S3Key(resource)

\* verifyAsset: folder ? `${folder}/${public_id}.${format}` : `${public_id}.${format}`
VerifyKey(resource) ==
    IF resource.folder # <<>>
    THEN resource.folder \o Slash \o resource.public_id \o Dot \o resource.format
    ELSE resource.public_id \o Dot \o resource.format

\* downloadAsset: `${publicId.replace(/\//g, '_')}.${format}` under downloads/
StagingPath(resource) ==
    [i \in 1..Len(resource.public_id) |->
        IF resource.public_id[i] = "/" THEN "_" ELSE resource.public_id[i]]
    \o Dot \o resource.format

(* --------------------------- configuration ----------------------------- *)
\* parseInt(process.env.X) || dflt, the variable given as {} (unset or not a
\* number) or {v}
ParseIntOr(env, dflt) ==
    IF env = {} THEN dflt
    ELSE LET v == CHOOSE x \in env : TRUE IN IF v = 0 THEN dflt ELSE v

Flags == {"--skip-existing", "--no-skip-existing", "--force-overwrite"}

\* one iteration of the argument switch of main / runCLI
ParseArgForceOnly(o, arg) ==
    CASE arg = "--skip-existing" -> [o EXCEPT !.skipExisting = "true"]
      [] arg = "--no-skip-existing" -> [o EXCEPT !.skipExisting = "false"]
      [] arg = "--force-overwrite" -> [o EXCEPT !.skipExisting = "false"]
      [] OTHER -> o

ParseArg(o, arg) ==
    CASE arg = "--skip-existing" -> [o EXCEPT !.skipExisting = "true"]
      [] arg = "--no-skip-existing" -> [o EXCEPT !.skipExisting = "false"]
      [] arg = "--force-overwrite" ->
            [o EXCEPT !.forceOverwrite = "true", !.skipExisting = "false"]
      [] OTHER -> o

\* constructor: skipExisting = options.skipExisting !== false,
\*              forceOverwrite = options.forceOverwrite === true
CtorSkipExisting(o) == o.skipExisting # "false"
CtorForceOverwrite(o) == o.forceOverwrite = "true"

\* migrateAsset: if (this.skipExisting && !this.forceOverwrite)
NeedsProbeIgnoringForce(se, fo) == se

NeedsProbeUnlessForce(se, fo) == ~fo

NeedsProbe(se, fo) == se /\ ~fo

\* checkS3FileExists: true only when headObject resolves
CheckS3FileExistsNever(probe) == FALSE

CheckS3FileExistsUnlessNotFound(probe) == probe # "notfound"

CheckS3FileExists(probe) == probe = "found"

\* migrate / migrateWithFilters: if (result.next_cursor) { nextCursor = ... }
\* else { hasMore = false }
HasMoreNever(nextCursor) == FALSE

HasMore(nextCursor) == nextCursor # 0

\* p-limit admits a queued task only while fewer than `concurrency` run
CanStartUnbounded(active, concurrency) == TRUE

CanStart(active, concurrency) == active < concurrency

\* pLimit(concurrency) throws a TypeError unless concurrency >= 1
PLimitThrows(concurrency) == concurrency < 1

(* ------------------------------- state --------------------------------- *)
VARIABLES
    pc,             \* "args" | "loop" | "batch" | "done" | "killed" | "verify" | "vbatch" | "vdone" | "key" | "keyed"
    run,            \* "first" | "second" invocation of the migrator
    script,         \* "migrate" (migrate.js) | "selective" (selective-migrate.js)
    opts,           \* the options object built by the argument switch
    argc,           \* arguments consumed so far
    sawForce,       \* --force-overwrite was among the arguments
    skipExisting, forceOverwrite,      \* constructor fields
    concurrencyEnv, \* MIGRATION_CONCURRENCY: {} or {v}
    maxResultsCfg,  \* MAX_RESULTS_PER_BATCH / --max-results: {} or {v}
    numIds,         \* length of --public-ids (0: not given)
    catalog,        \* the source catalog: a sequence of asset ids
    cursor,         \* nextCursor (0: null)
    pendingCursor,  \* result.next_cursor of the batch in progress (0: none)
    chunkIdx,       \* index of the identifier chunk being looked up
    batch,          \* result.resources of the batch in progress
    wstate,         \* per task of the batch: its position in migrateAsset
    migratedCount, skippedCount, failedCount, totalCount,
    failedAssets, skippedAssets,
    s3,             \* destination objects: set of [key, size]
    files,          \* staging files that exist in downloads/
    artifacts,      \* failed-assets.json / skipped-assets.json last written
    calls,          \* catalog requests issued in this run, in order
    returned,       \* next_cursor of each successful listing response
    probes,         \* headObject requests issued by migrateAsset in this run
    writes,         \* destination writes acknowledged in this run: set of [asset, key]
    loopError,      \* "none" | "catalog" | "batch": what ended or hit the loop;
                    \* "signal" | "signal_in_flight": a signal ended the process
                    \* (with tasks in flight)
    probeError,     \* an existence probe of this run failed (not NotFound)
    attempts,       \* per asset: requests migrateAsset issued for it in this run
    progress,       \* the "Progress: ..." lines printed in this run, in order
    firstRun,       \* what the first run left (counts, how it ended, destination
                    \* keys) when the second one starts
    ver,            \* the verifier's fields, loop state and report
    keyed,          \* key derivations applied to a pair of descriptors
    proc            \* an entry point's process: environment, requests, exit code

migVars == <<run, script, opts, argc, sawForce, skipExisting, forceOverwrite,
             concurrencyEnv, maxResultsCfg, numIds, cursor, pendingCursor,
             chunkIdx, batch, wstate, migratedCount, skippedCount, failedCount,
             totalCount, failedAssets, skippedAssets, files, artifacts, calls,
             returned, probes, writes, loopError, probeError, attempts,
             progress, firstRun>>

vars == <<pc, migVars, catalog, s3, ver, keyed, proc>>

(* ----------------------------- helpers --------------------------------- *)
Min(a, b) == IF a < b THEN a ELSE b

Range(s) == {s[i] : i \in 1..Len(s)}

\* strictly increasing sequences over S of length <= n
SortedSeqs(S, n) ==
    {q \in UNION {[1..k -> S] : k \in 0..n} :
        \A i \in 1..(Len(q) - 1) : q[i] < q[i + 1]}

Mode == IF script = "migrate" THEN "full"
        ELSE IF numIds > 0 THEN "byIds" ELSE "filtered"

Concurrency == ParseIntOr(concurrencyEnv, DefaultConcurrency)

\* migrate: MAX_RESULTS; migrateWithFilters: this.options.maxResults || 100
MaxResults == ParseIntOr(maxResultsCfg, DefaultMaxResults)

InFlightStates == {"probing", "fetching", "streaming", "uploading", "hung"}
ResolvedStates == {"migrated", "skipped", "failed"}

ActiveCount == Cardinality({w \in DOMAIN wstate : wstate[w] \in InFlightStates})

\* migrateByPublicIds: batches.push(publicIds.slice(i, i + 100)); identifiers
\* are numbered by their position in the list
NumChunks == (numIds + IdChunkSize - 1) \div IdChunkSize

ChunkShort(k) == [j \in 1..(Min(k * IdChunkSize, numIds) - (k - 1) * IdChunkSize - 1) |->
                    (k - 1) * IdChunkSize + j]

Chunk(k) == [j \in 1..(Min(k * IdChunkSize, numIds) - (k - 1) * IdChunkSize) |->
                (k - 1) * IdChunkSize + j]

\* resources_by_ids: the catalog's assets whose identifier is in the chunk
LookupSet(ids) == {a \in Range(catalog) : IdPositions(a) \cap Range(ids) # {}}
Lookup(ids) ==
    LET S == LookupSet(ids)
    IN  CHOOSE q \in SortedSeqs(S, Cardinality(S)) : Len(q) = Cardinality(S)

\* api.resources: the page after `cur` of at most `maxResults` assets
Page(cur, maxResults) == SubSeq(catalog, cur + 1, Min(cur + maxResults, Len(catalog)))
NextCursorOf(cur, maxResults) ==
    IF cur + maxResults < Len(catalog) THEN cur + maxResults ELSE 0

S3Has(key) == \E o \in s3 : o.key = key
S3Put(store, key, size) == {o \in store : o.key # key} \cup {[key |-> key, size |-> size]}

IdCounts ==
    {k * IdChunkSize + d : k \in 0..MaxChunks, d \in {0, 1}} \ {0}

NoOpts == [skipExisting |-> "undefined", forceOverwrite |-> "undefined"]
NoArtifacts == [failedWritten |-> FALSE, failed |-> {},
                skippedWritten |-> FALSE, skipped |-> {}]
NoFirstRun == [migrated |-> 0, skipped |-> 0, failed |-> 0, total |-> 0,
               loopError |-> "none", persisted |-> {}]
\* the object a successful migration of asset a leaves at the destination
MigratedObject(a) == [key |-> S3Key(Resource(a)), size |-> Resource(a).bytes]

\* new MigrationVerifier(), the locals of verify() and what the pass has
\* requested, recorded and reported
NewVerifier(sample) ==
    [sampleSize |-> sample, cursor |-> 0, pendingCursor |-> 0, processed |-> 0,
     batch |-> <<>>, vstate |-> <<>>,
     verified |-> 0, missing |-> 0, missingAssets |-> <<>>, sizeMismatches |-> <<>>,
     calls |-> <<>>, outcomes |-> {}, catalogError |-> FALSE,
     report |-> [printed |-> FALSE, total |-> 0, rate |-> 0, written |-> FALSE,
                 verdict |-> "none"]]

\* the requests migrateAsset has issued for each asset in this run
\* (headObject, axios GET, s3.upload) and what headObject answered
NoAttempts ==
    [a \in AssetIds \cup StagedAssetIds |->
        [probe |-> 0, answer |-> "none", fetch |-> 0, put |-> 0]]

Issued(att, a, step) == [att EXCEPT ![a][step] = @ + 1]

NoVer == NewVerifier({})
NoKeyed == <<>>
NoProc == [entry |-> "none", env |-> {}, requests |-> 0, failures |-> FALSE,
           threw |-> FALSE, code |-> {}]

(* ------------------------------- Init ---------------------------------- *)
InitOver(assets, pageSizes, idCounts) ==
    /\ pc = "args"
    /\ run = "first"
    /\ script \in {"migrate", "selective"}
    /\ opts = NoOpts
    /\ argc = 0
    /\ sawForce = FALSE
    /\ skipExisting = TRUE
    /\ forceOverwrite = FALSE
    /\ concurrencyEnv \in {{}} \cup {{v} : v \in -1..MaxConcurrency}
    /\ numIds \in IF script = "selective" THEN {0} \cup idCounts ELSE {0}
    /\ maxResultsCfg \in IF numIds = 0 THEN {{}} \cup {{v} : v \in pageSizes}
                                      ELSE {{}}
    /\ catalog \in SortedSeqs(assets, MaxCatalog)
    /\ cursor = 0
    /\ pendingCursor = 0
    /\ chunkIdx = 1
    /\ batch = <<>>
    /\ wstate = <<>>
    /\ migratedCount = 0
    /\ skippedCount = 0
    /\ failedCount = 0
    /\ totalCount = 0
    /\ failedAssets = <<>>
    /\ skippedAssets = <<>>
    /\ s3 \in {{}} \cup {{MigratedObject(a)} : a \in Range(catalog)}
    /\ files = {}
    /\ artifacts = NoArtifacts
    /\ calls = <<>>
    /\ returned = <<>>
    /\ probes = 0
    /\ writes = {}
    /\ loopError = "none"
    /\ probeError = FALSE
    /\ attempts = NoAttempts
    /\ progress = <<>>
    /\ firstRun = NoFirstRun
    /\ ver = NoVer
    /\ keyed = NoKeyed
    /\ proc = NoProc

\* the state when node starts main / runCLI
Init == InitOver(AssetIds, 1..MaxPageCfg, IdCounts)

\* the same start over catalogs whose assets are staged under different
\* paths, with batch sizes at and above the catalog's maximum and with
\* identifier lists that may name an identifier twice
InitWide ==
    InitOver(StagedAssetIds, {CatalogPageCap, CatalogPageCap + 1},
             IdCounts \cup {RepeatPosition})

(* ----------------------- command line, constructor --------------------- *)
cfgVars == <<script, concurrencyEnv, maxResultsCfg, numIds, catalog>>
runVars == <<cursor, pendingCursor, chunkIdx, batch, wstate, migratedCount,
             skippedCount, failedCount, totalCount, failedAssets, skippedAssets,
             artifacts, calls, returned, probes, writes, loopError, probeError,
             attempts, progress>>
otherVars == <<ver, keyed, proc>>

\* main / runCLI: one iteration of `for (let i = 0; i < args.length; i++)`
ParseStep(arg) ==
    /\ pc = "args"
    /\ argc < MaxArgs
    /\ opts' = ParseArg(opts, arg)
    /\ argc' = argc + 1
    /\ sawForce' = (sawForce \/ arg = "--force-overwrite")
    /\ UNCHANGED <<pc, run, skipExisting, forceOverwrite, cfgVars, runVars,
                   s3, files, firstRun, otherVars>>

\* new CloudinaryToS3Migrator(options) / new SelectiveMigrator(options),
\* then migrate() up to its first catalog request; the locals of main / runCLI
\* (args, i, options) are not read again
Construct ==
    /\ pc = "args"
    /\ skipExisting' = CtorSkipExisting(opts)
    /\ forceOverwrite' = CtorForceOverwrite(opts)
    /\ opts' = NoOpts
    /\ argc' = 0
    /\ pc' = "loop"
    /\ UNCHANGED <<run, sawForce, cfgVars, runVars, s3, files,
                   firstRun, otherVars>>

(* ------------------------------ summary -------------------------------- *)
\* printSummary: each list is written only when it is not empty; of a file
\* the identifiers it lists are kept
Listed(assets) == {assets[i].public_id : i \in 1..Len(assets)}

Summarised(art, fa, sa) ==
    [failedWritten |-> (art.failedWritten \/ fa # <<>>),
     failed |-> IF fa # <<>> THEN Listed(fa) ELSE art.failed,
     skippedWritten |-> (art.skippedWritten \/ sa # <<>>),
     skipped |-> IF sa # <<>> THEN Listed(sa) ELSE art.skipped]

(* --------------------------- catalog requests -------------------------- *)
ListRequest == [kind |-> "list", cursor |-> cursor, max_results |-> MaxResults,
                ids |-> <<>>]
IdsRequest == [kind |-> "byIds", cursor |-> 0, max_results |-> 0,
               ids |-> Chunk(chunkIdx)]

\* migrate / migrateWithFilters: a loop iteration that ends in the catch
\* clause (break), then printSummary
LoopBreak(why) ==
    /\ loopError' = why
    /\ pc' = "done"
    /\ artifacts' = Summarised(artifacts, failedAssets, skippedAssets)
    /\ UNCHANGED <<cursor, pendingCursor, chunkIdx, batch, wstate>>

\* processBatch up to `await Promise.all(tasks)`: every task is queued
BatchStart(resources, nextCursor) ==
    /\ batch' = resources
    /\ wstate' = [w \in 1..Len(resources) |-> "queued"]
    /\ pendingCursor' = nextCursor
    /\ pc' = "batch"
    /\ UNCHANGED <<cursor, chunkIdx, loopError, artifacts>>

\* cloudinary.api.resources(options) and what follows up to the next await
ListCall(ok) ==
    /\ pc = "loop"
    /\ Mode \in {"full", "filtered"}
    /\ calls' = Append(calls, ListRequest)
    /\ IF ~ok
       THEN /\ LoopBreak("catalog")
            /\ UNCHANGED <<totalCount, returned>>
       ELSE /\ totalCount' = totalCount + Len(Page(cursor, MaxResults))
            /\ returned' = Append(returned, NextCursorOf(cursor, MaxResults))
            /\ IF PLimitThrows(Concurrency)
               THEN LoopBreak("batch")
               ELSE BatchStart(Page(cursor, MaxResults),
                               NextCursorOf(cursor, MaxResults))
    /\ UNCHANGED <<run, opts, argc, sawForce, skipExisting, forceOverwrite,
                   cfgVars, migratedCount, skippedCount, failedCount,
                   failedAssets, skippedAssets, probes, writes, probeError,
                   attempts, progress, s3, files, firstRun, otherVars>>

\* migrateByPublicIds: the catch clause of one chunk; the for loop goes on,
\* and migrate prints the summary after the last chunk
ChunkSkipped(why) ==
    /\ loopError' = why
    /\ IF chunkIdx < NumChunks
       THEN /\ chunkIdx' = chunkIdx + 1
            /\ pc' = "loop"
            /\ UNCHANGED artifacts
       ELSE /\ pc' = "done"
            /\ artifacts' = Summarised(artifacts, failedAssets, skippedAssets)
            /\ UNCHANGED chunkIdx
    /\ UNCHANGED <<cursor, pendingCursor, batch, wstate>>

\* cloudinary.api.resources_by_ids(batch, ...) and what follows
IdsCall(ok) ==
    /\ pc = "loop"
    /\ Mode = "byIds"
    /\ calls' = Append(calls, IdsRequest)
    /\ IF ~ok
       THEN /\ ChunkSkipped("catalog")
            /\ UNCHANGED totalCount
       ELSE /\ totalCount' = totalCount + Len(Lookup(Chunk(chunkIdx)))
            /\ IF PLimitThrows(Concurrency)
               THEN ChunkSkipped("batch")
               ELSE BatchStart(Lookup(Chunk(chunkIdx)), 0)
    /\ UNCHANGED <<run, opts, argc, sawForce, skipExisting, forceOverwrite,
                   cfgVars, migratedCount, skippedCount, failedCount,
                   failedAssets, skippedAssets, probes, writes, probeError,
                   attempts, progress, returned, s3, files, firstRun, otherVars>>

\* a Promise.all that resolves as soon as one task has settled
AnySettled(ws) == \E w \in DOMAIN ws : ws[w] \in ResolvedStates

\* processBatch: `await Promise.all(tasks)`, each task ending in .then/.catch
AllSettled(ws) == \A w \in DOMAIN ws : ws[w] \in ResolvedStates

\* migrate / migrateWithFilters: console.log(`Progress: ...`)
ProgressLine ==
    [migrated |-> migratedCount, skipped |-> skippedCount,
     failed |-> failedCount, total |-> totalCount]

\* `await Promise.all(tasks)` resolves; the rest of the loop iteration
BatchEnd ==
    /\ pc = "batch"
    /\ AllSettled(wstate)
    /\ batch' = <<>>
    /\ wstate' = <<>>
    /\ pendingCursor' = 0
    /\ IF Mode = "byIds"
       THEN /\ UNCHANGED progress
            /\ IF chunkIdx < NumChunks
               THEN /\ chunkIdx' = chunkIdx + 1
                    /\ pc' = "loop"
                    /\ UNCHANGED <<cursor, artifacts>>
               ELSE /\ pc' = "done"
                    /\ artifacts' = Summarised(artifacts, failedAssets, skippedAssets)
                    /\ UNCHANGED <<cursor, chunkIdx>>
       ELSE /\ progress' = Append(progress, ProgressLine)
            /\ IF HasMore(pendingCursor)
               THEN /\ cursor' = pendingCursor
                    /\ pc' = "loop"
                    /\ UNCHANGED <<chunkIdx, artifacts>>
               ELSE /\ pc' = "done"
                    /\ artifacts' = Summarised(artifacts, failedAssets, skippedAssets)
                    /\ UNCHANGED <<cursor, chunkIdx>>
    /\ UNCHANGED <<run, opts, argc, sawForce, skipExisting, forceOverwrite,
                   cfgVars, migratedCount, skippedCount, failedCount, totalCount,
                   failedAssets, skippedAssets, calls, returned, probes, writes,
                   loopError, probeError, attempts, s3, files, firstRun,
                   otherVars>>

(* --------------------- task outcomes (processBatch) -------------------- *)
\* a task moves on inside migrateAsset without producing an outcome
Advance(w, st) ==
    /\ wstate' = [wstate EXCEPT ![w] = st]
    /\ UNCHANGED <<pc, migratedCount, skippedCount, failedCount, failedAssets,
                   skippedAssets, loopError, artifacts>>

\* .then(result => { if (result === 'migrated') this.migratedCount++; ... })
Migrated(w) ==
    /\ wstate' = [wstate EXCEPT ![w] = "migrated"]
    /\ migratedCount' = migratedCount + 1
    /\ UNCHANGED <<pc, skippedCount, failedCount, failedAssets, skippedAssets,
                   loopError, artifacts>>

\* a skip that is counted without an entry in the skipped list
SkippedUnlisted(w) ==
    /\ wstate' = [wstate EXCEPT ![w] = "skipped"]
    /\ skippedCount' = skippedCount + 1
    /\ UNCHANGED <<pc, migratedCount, failedCount, failedAssets, skippedAssets,
                   loopError, artifacts>>

\* migrateAsset: this.skippedAssets.push(...); return 'skipped'; then the
\* .then handler: this.skippedCount++
Skipped(w) ==
    /\ wstate' = [wstate EXCEPT ![w] = "skipped"]
    /\ skippedCount' = skippedCount + 1
    /\ skippedAssets' = Append(skippedAssets,
            [public_id |-> Resource(batch[w]).public_id,
             s3_key |-> S3Key(Resource(batch[w])),
             reason |-> "already_exists"])
    /\ UNCHANGED <<pc, migratedCount, failedCount, failedAssets, loopError,
                   artifacts>>

\* a rejection that is not caught per task: Promise.all rejects, the loop's
\* catch clause ends the run
FailedEndsRun(w, msg) ==
    /\ wstate' = [wstate EXCEPT ![w] = "failed"]
    /\ failedCount' = failedCount + 1
    /\ failedAssets' = Append(failedAssets,
            [public_id |-> Resource(batch[w]).public_id, error |-> msg])
    /\ pc' = "done"
    /\ loopError' = "batch"
    /\ artifacts' = Summarised(artifacts, failedAssets', skippedAssets)
    /\ UNCHANGED <<migratedCount, skippedCount, skippedAssets>>

\* a failed task that is put back into the queue instead of being recorded
FailedRequeued(w, msg) ==
    /\ wstate' = [wstate EXCEPT ![w] = "queued"]
    /\ UNCHANGED <<pc, migratedCount, skippedCount, failedCount, failedAssets,
                   skippedAssets, loopError, artifacts>>

\* .catch(error => { this.failedCount++; this.failedAssets.push(...) })
Failed(w, msg) ==
    /\ wstate' = [wstate EXCEPT ![w] = "failed"]
    /\ failedCount' = failedCount + 1
    /\ failedAssets' = Append(failedAssets,
            [public_id |-> Resource(batch[w]).public_id, error |-> msg])
    /\ UNCHANGED <<pc, migratedCount, skippedCount, skippedAssets, loopError,
                   artifacts>>

(* ------------------------ migrateAsset, per task ----------------------- *)
taskFrame == <<run, opts, argc, sawForce, skipExisting, forceOverwrite, cfgVars,
               progress,
               cursor, pendingCursor, chunkIdx, batch, totalCount, calls,
               returned, firstRun, otherVars>>

\* migrateAsset from `const cloudinaryUrl = ...` to the axios request
AfterProbe(w, att) ==
    IF Resource(batch[w]).url
    THEN /\ attempts' = Issued(att, batch[w], "fetch")
         /\ Advance(w, "fetching")
    ELSE /\ attempts' = att
         /\ Failed(w, "no_url")

\* p-limit starts the task at the head of its queue; migrateAsset runs to its
\* first await
Start(w) ==
    /\ pc = "batch"
    /\ w \in DOMAIN wstate
    /\ wstate[w] = "queued"
    /\ \A v \in 1..(w - 1) : wstate[v] # "queued"
    /\ CanStart(ActiveCount, Concurrency)
    /\ IF NeedsProbe(skipExisting, forceOverwrite)
       THEN /\ probes' = probes + 1
            /\ attempts' = Issued(attempts, batch[w], "probe")
            /\ Advance(w, "probing")
       ELSE /\ UNCHANGED probes
            /\ AfterProbe(w, attempts)
    /\ UNCHANGED <<taskFrame, s3, files, writes, probeError>>

\* s3.headObject settles: "found" | "notfound" | "error" (any other failure)
ProbeReturn(w, probe) ==
    /\ pc = "batch"
    /\ w \in DOMAIN wstate
    /\ wstate[w] = "probing"
    /\ probe = "found" => S3Has(S3Key(Resource(batch[w])))
    /\ probe = "notfound" => ~S3Has(S3Key(Resource(batch[w])))
    /\ probeError' = (probeError \/ probe = "error")
    /\ IF CheckS3FileExists(probe)
       THEN /\ attempts' = [attempts EXCEPT ![batch[w]].answer = probe]
            /\ Skipped(w)
       ELSE AfterProbe(w, [attempts EXCEPT ![batch[w]].answer = probe])
    /\ UNCHANGED <<taskFrame, s3, files, writes, probes>>

\* a download that is requested a second time when its first request fails
FetchReturnRetrying(w, ok) ==
    /\ pc = "batch"
    /\ w \in DOMAIN wstate
    /\ wstate[w] = "fetching"
    /\ IF ok
       THEN /\ files' = files \cup {StagingPath(Resource(batch[w]))}
            /\ UNCHANGED attempts
            /\ Advance(w, "streaming")
       ELSE IF attempts[batch[w]].fetch < 2
            THEN /\ attempts' = Issued(attempts, batch[w], "fetch")
                 /\ UNCHANGED files
                 /\ Advance(w, "fetching")
            ELSE /\ UNCHANGED <<files, attempts>>
                 /\ Failed(w, "fetch")
    /\ UNCHANGED <<taskFrame, s3, writes, probes, probeError>>

\* downloadAsset: the axios request settles; on success the write stream
\* creates the staging file and the response is piped into it
FetchReturn(w, ok) ==
    /\ pc = "batch"
    /\ w \in DOMAIN wstate
    /\ wstate[w] = "fetching"
    /\ IF ok
       THEN /\ files' = files \cup {StagingPath(Resource(batch[w]))}
            /\ Advance(w, "streaming")
       ELSE /\ UNCHANGED files
            /\ Failed(w, "fetch")
    /\ UNCHANGED <<taskFrame, s3, writes, probes, probeError, attempts>>

\* downloadAsset: the stream ends.  "finish": the promise resolves and
\* uploadToS3 reads the file and issues the write; "writer_error": the promise
\* rejects; "source_error": the response stream fails, which neither finishes
\* nor fails the writer, so the promise never settles
StreamEnd(w, ev) ==
    /\ pc = "batch"
    /\ w \in DOMAIN wstate
    /\ wstate[w] = "streaming"
    /\ CASE ev = "finish" ->
                IF StagingPath(Resource(batch[w])) \in files
                THEN /\ attempts' = Issued(attempts, batch[w], "put")
                     /\ Advance(w, "uploading")
                ELSE /\ UNCHANGED attempts
                     /\ Failed(w, "read")
         [] ev = "writer_error" -> /\ UNCHANGED attempts
                                   /\ Failed(w, "write")
         [] OTHER -> /\ UNCHANGED attempts
                     /\ Advance(w, "hung")
    /\ UNCHANGED <<taskFrame, s3, files, writes, probes, probeError>>

\* s3.upload settles; on success fs.unlinkSync(localFilePath), return 'migrated'
UploadReturn(w, ok) ==
    /\ pc = "batch"
    /\ w \in DOMAIN wstate
    /\ wstate[w] = "uploading"
    /\ IF ok
       THEN /\ s3' = S3Put(s3, UploadKey(Resource(batch[w]), S3Key(Resource(batch[w]))),
                           Resource(batch[w]).bytes)
            /\ writes' = writes \cup
                    {[asset |-> batch[w],
                      key |-> UploadKey(Resource(batch[w]), S3Key(Resource(batch[w])))]}
            /\ IF StagingPath(Resource(batch[w])) \in files
               THEN /\ files' = files \ {StagingPath(Resource(batch[w]))}
                    /\ Migrated(w)
               ELSE /\ UNCHANGED files
                    /\ Failed(w, "unlink")
       ELSE /\ UNCHANGED <<s3, writes, files>>
            /\ Failed(w, "upload")
    /\ UNCHANGED <<taskFrame, probes, probeError, attempts>>

(* ------------------------------ signals -------------------------------- *)
\* process.on('SIGINT' / 'SIGTERM', () => { ...; process.exit(0) }): the
\* process ends where it stands, nothing is drained and no summary is printed:
\* its memory (counters, lists, tasks, loop state) is gone, the destination,
\* downloads/ and the artifact files stay as they are.  Of the destination
\* writes in flight, those in `landed` still reach the store.
ExitDrained(art, fa, sa) == Summarised(art, fa, sa)

\* the handlers call process.exit(0) and nothing else: printSummary is not
\* reached, failed-assets.json and skipped-assets.json stay as they were
ExitAtOnce(art, fa, sa) == art

Interrupt(landed) ==
    /\ pc \in {"loop", "batch"}
    /\ run = "first"
    /\ landed \subseteq {w \in DOMAIN wstate : wstate[w] = "uploading"}
    /\ pc' = "killed"
    /\ s3' = {o \in s3 : \A w \in landed : o.key # S3Key(Resource(batch[w]))}
              \cup {MigratedObject(batch[w]) : w \in landed}
    /\ cursor' = 0
    /\ pendingCursor' = 0
    /\ chunkIdx' = 1
    /\ batch' = <<>>
    /\ wstate' = <<>>
    /\ migratedCount' = 0
    /\ skippedCount' = 0
    /\ failedCount' = 0
    /\ totalCount' = 0
    /\ failedAssets' = <<>>
    /\ skippedAssets' = <<>>
    /\ calls' = <<>>
    /\ returned' = <<>>
    /\ probes' = 0
    /\ writes' = {}
    /\ loopError' = IF ActiveCount > 0 THEN "signal_in_flight" ELSE "signal"
    /\ probeError' = FALSE
    /\ attempts' = NoAttempts
    /\ progress' = <<>>
    /\ artifacts' = ExitAtOnce(artifacts, failedAssets, skippedAssets)
    /\ UNCHANGED <<run, opts, argc, sawForce, skipExisting, forceOverwrite,
                   cfgVars, files, firstRun, otherVars>>

(* ----------------------------- second run ------------------------------ *)
\* the same command is run again against the same catalog and destination,
\* after the first run ended or was interrupted (re-runs are followed for the
\* skip-existing policy, the one they are documented for); downloads/ and the
\* artifact files are what the first run left
Rerun ==
    /\ pc \in {"done", "killed"}
    /\ run = "first"
    /\ NeedsProbe(skipExisting, forceOverwrite)
    /\ run' = "second"
    /\ firstRun' = [migrated |-> migratedCount, skipped |-> skippedCount,
                    failed |-> failedCount, total |-> totalCount,
                    loopError |-> IF pc = "killed" THEN "killed" ELSE loopError,
                    persisted |-> {o.key : o \in s3}]
    /\ pc' = "loop"
    /\ cursor' = 0
    /\ pendingCursor' = 0
    /\ chunkIdx' = 1
    /\ batch' = <<>>
    /\ wstate' = <<>>
    /\ migratedCount' = 0
    /\ skippedCount' = 0
    /\ failedCount' = 0
    /\ totalCount' = 0
    /\ failedAssets' = <<>>
    /\ skippedAssets' = <<>>
    /\ calls' = <<>>
    /\ returned' = <<>>
    /\ probes' = 0
    /\ writes' = {}
    /\ loopError' = "none"
    /\ probeError' = FALSE
    /\ attempts' = NoAttempts
    /\ progress' = <<>>
    /\ UNCHANGED <<opts, argc, sawForce, skipExisting, forceOverwrite, cfgVars,
                   artifacts, s3, files, otherVars>>

(* ------------------------------- Spec ---------------------------------- *)
Tasks == 1..MaxCatalog

\* the steps the program takes by itself
Step ==
    \/ \E arg \in Flags : ParseStep(arg)
    \/ Construct
    \/ \E ok \in BOOLEAN : ListCall(ok)
    \/ \E ok \in BOOLEAN : IdsCall(ok)
    \/ \E w \in Tasks : Start(w)
    \/ \E w \in Tasks, probe \in {"found", "notfound", "error"} : ProbeReturn(w, probe)
    \/ \E w \in Tasks, ok \in BOOLEAN : FetchReturn(w, ok)
    \/ \E w \in Tasks, ev \in {"finish", "writer_error", "source_error"} : StreamEnd(w, ev)
    \/ \E w \in Tasks, ok \in BOOLEAN : UploadReturn(w, ok)
    \/ BatchEnd
    \/ Rerun

Next ==
    \/ Step
    \/ \E landed \in SUBSET Tasks : Interrupt(landed)

Spec == Init /\ [][Next]_vars

\* every pending request settles and every continuation that is ready runs;
\* nothing makes a signal arrive
SpecLive == Spec /\ WF_vars(Step)

SpecWide == InitWide /\ [][Next]_vars

(* ============================= verifier ================================ *)
\* the objects a destination can hold when a verification pass starts: under
\* the key the verifier probes with the catalog's size or another one, or as
\* the migrator leaves them
DestObjects ==
    UNION {{[key |-> VerifyKey(Resource(a)), size |-> Resource(a).bytes],
            [key |-> VerifyKey(Resource(a)), size |-> 200],
            MigratedObject(a)} : a \in AssetIds}

Destinations ==
    {S \in SUBSET DestObjects :
        /\ Cardinality(S) <= MaxObjects
        /\ \A o1, o2 \in S : o1.key = o2.key => o1 = o2}

InitVerify ==
    /\ pc = "verify"
    /\ run = "first"
    /\ script = "migrate"
    /\ opts = NoOpts
    /\ argc = 0
    /\ sawForce = FALSE
    /\ skipExisting = TRUE
    /\ forceOverwrite = FALSE
    /\ concurrencyEnv = {}
    /\ maxResultsCfg = {}
    /\ numIds = 0
    /\ catalog \in SortedSeqs(AssetIds, MaxCatalog + 1)
    /\ cursor = 0
    /\ pendingCursor = 0
    /\ chunkIdx = 1
    /\ batch = <<>>
    /\ wstate = <<>>
    /\ migratedCount = 0
    /\ skippedCount = 0
    /\ failedCount = 0
    /\ totalCount = 0
    /\ failedAssets = <<>>
    /\ skippedAssets = <<>>
    /\ s3 \in Destinations
    /\ files = {}
    /\ artifacts = NoArtifacts
    /\ calls = <<>>
    /\ returned = <<>>
    /\ probes = 0
    /\ writes = {}
    /\ loopError = "none"
    /\ probeError = FALSE
    /\ attempts = NoAttempts
    /\ progress = <<>>
    /\ firstRun = NoFirstRun
    /\ ver \in {NewVerifier(sample) : sample \in {{}} \cup {{n} : n \in 0..MaxSample}}
    /\ keyed = NoKeyed
    /\ proc = NoProc

\* verify: `sampleSize` is falsy when it is null or 0
SampleGiven(v) == v.sampleSize # {} /\ v.sampleSize # {0}
SampleOf(v) == CHOOSE n \in v.sampleSize : TRUE

\* verify: sampleSize ? Math.min(100, sampleSize - processed) : 100
VerifyMaxResults(v) ==
    IF SampleGiven(v) THEN Min(VerifyPageSize, SampleOf(v) - v.processed)
    ELSE VerifyPageSize

\* verify: (!sampleSize || processed < sampleSize)
SampleOpen(v, processed) ==
    IF SampleGiven(v) THEN processed < SampleOf(v) ELSE TRUE

\* ((this.verified / total) * 100).toFixed(2), in hundredths of a percent
Rate(verified, total) == (2 * 10000 * verified + total) \div (2 * total)

\* a report file that is written after every pass
ReportAlwaysWritten(v) ==
    LET total == v.verified + v.missing
        successRate == IF total > 0 THEN Rate(v.verified, total) ELSE 0
    IN  [printed |-> TRUE,
         total |-> total,
         rate |-> successRate,
         written |-> TRUE,
         verdict |-> IF successRate = 10000 THEN "success" ELSE "issues"]

\* printVerificationReport
Report(v) ==
    LET total == v.verified + v.missing
        successRate == IF total > 0 THEN Rate(v.verified, total) ELSE 0
    IN  [printed |-> TRUE,
         total |-> total,
         rate |-> successRate,
         written |-> (v.missing > 0 \/ Len(v.sizeMismatches) > 0),
         verdict |-> IF successRate = 10000 THEN "success" ELSE "issues"]

\* what the catalog serves for a request of max_results assets: that many, or
\* (short) a single one with a cursor to the rest, max_results being a maximum
Served(maxResults, short) == IF short THEN Min(1, maxResults) ELSE maxResults

\* cloudinary.api.resources(options) of verify, then verifyBatch up to
\* Promise.all: every verifyAsset has issued its headObject
VerifyCall(ok, short) ==
    /\ pc = "verify"
    /\ SampleOpen(ver, ver.processed)
    /\ IF ~ok
       THEN /\ pc' = "vdone"
            /\ ver' = [ver EXCEPT
                    !.calls = Append(@, [cursor |-> ver.cursor,
                                         max_results |-> VerifyMaxResults(ver)]),
                    !.catalogError = TRUE,
                    !.report = Report(ver)]
       ELSE /\ pc' = "vbatch"
            /\ ver' = [ver EXCEPT
                    !.calls = Append(@, [cursor |-> ver.cursor,
                                         max_results |-> VerifyMaxResults(ver)]),
                    !.batch = Page(ver.cursor, Served(VerifyMaxResults(ver), short)),
                    !.vstate =
                        [i \in 1..Len(Page(ver.cursor, Served(VerifyMaxResults(ver), short)))
                            |-> "probing"],
                    !.pendingCursor =
                        NextCursorOf(ver.cursor, Served(VerifyMaxResults(ver), short))]
    /\ UNCHANGED <<migVars, catalog, s3, keyed, proc>>

SizeAt(key) == (CHOOSE o \in s3 : o.key = key).size

\* verifyAsset: if (bytes && s3Object.ContentLength !== bytes)
SizeDiffers(bytes, contentLength) == bytes # 0 /\ contentLength # bytes

\* verifyAsset after s3.headObject settles: "found" | "notfound" | "error"
VerifyAssetReturn(i, probe) ==
    /\ pc = "vbatch"
    /\ i \in DOMAIN ver.vstate
    /\ ver.vstate[i] = "probing"
    /\ probe = "found" => S3Has(VerifyKey(Resource(ver.batch[i])))
    /\ probe = "notfound" => ~S3Has(VerifyKey(Resource(ver.batch[i])))
    /\ LET r == Resource(ver.batch[i])
           key == VerifyKey(r)
           differs == probe = "found" /\ SizeDiffers(r.bytes, SizeAt(key))
       IN  ver' = [ver EXCEPT
                !.vstate[i] = "settled",
                !.sizeMismatches =
                    IF differs
                    THEN Append(@, [public_id |-> r.public_id,
                                    cloudinary_size |-> r.bytes,
                                    s3_size |-> SizeAt(key), s3_key |-> key])
                    ELSE @,
                !.verified = IF probe = "found" THEN @ + 1 ELSE @,
                !.missing = IF probe = "notfound" THEN @ + 1 ELSE @,
                !.missingAssets =
                    IF probe = "notfound"
                    THEN Append(@, [public_id |-> r.public_id, format |-> r.format,
                                    expected_s3_key |-> key])
                    ELSE @,
                !.outcomes = @ \cup
                    {[asset |-> ver.batch[i], probe |-> probe,
                      verified |-> (probe = "found"),
                      mismatch |-> differs,
                      missing |-> (probe = "notfound")]}]
    /\ UNCHANGED <<pc, migVars, catalog, s3, keyed, proc>>

\* verify after `await this.verifyBatch(...)`: the rest of the iteration, and
\* printVerificationReport when the loop ends
VerifyBatchEnd ==
    /\ pc = "vbatch"
    /\ \A i \in DOMAIN ver.vstate : ver.vstate[i] = "settled"
    /\ LET processed == ver.processed + Len(ver.batch)
           more == ver.pendingCursor # 0 /\ SampleOpen(ver, processed)
           v == [ver EXCEPT !.processed = processed,
                            !.cursor = IF more THEN ver.pendingCursor ELSE @,
                            !.pendingCursor = 0,
                            !.batch = <<>>,
                            !.vstate = <<>>]
       IN  IF more
           THEN /\ pc' = "verify"
                /\ ver' = v
           ELSE /\ pc' = "vdone"
                /\ ver' = [v EXCEPT !.report = Report(v)]
    /\ UNCHANGED <<migVars, catalog, s3, keyed, proc>>

NextVerify ==
    \/ \E ok \in BOOLEAN, short \in BOOLEAN : VerifyCall(ok, short)
    \/ \E i \in 1..(MaxCatalog + 1), probe \in {"found", "notfound", "error"} :
            VerifyAssetReturn(i, probe)
    \/ VerifyBatchEnd

SpecVerify == InitVerify /\ [][NextVerify]_vars

(* ========================== key derivation ============================= *)
\* descriptors the key derivations are applied to: every identifier, format,
\* folder and size combination below
Descriptors ==
    [public_id : {<<"a", "/", "b">>, <<"a", "_", "b">>, <<"c">>},
     format : {Jpg, Png},
     folder : {<<>>, <<"a">>, <<"c", "l", "o", "u", "d", "i", "n", "a", "r", "y">>},
     bytes : {100, 999},
     url : {TRUE}]

InitKey ==
    /\ pc = "key"
    /\ run = "first"
    /\ script = "migrate"
    /\ opts = NoOpts
    /\ argc = 0
    /\ sawForce = FALSE
    /\ skipExisting = TRUE
    /\ forceOverwrite = FALSE
    /\ concurrencyEnv = {}
    /\ maxResultsCfg = {}
    /\ numIds = 0
    /\ catalog = <<>>
    /\ cursor = 0
    /\ pendingCursor = 0
    /\ chunkIdx = 1
    /\ batch = <<>>
    /\ wstate = <<>>
    /\ migratedCount = 0
    /\ skippedCount = 0
    /\ failedCount = 0
    /\ totalCount = 0
    /\ failedAssets = <<>>
    /\ skippedAssets = <<>>
    /\ s3 = {}
    /\ files = {}
    /\ artifacts = NoArtifacts
    /\ calls = <<>>
    /\ returned = <<>>
    /\ probes = 0
    /\ writes = {}
    /\ loopError = "none"
    /\ probeError = FALSE
    /\ attempts = NoAttempts
    /\ progress = <<>>
    /\ firstRun = NoFirstRun
    /\ ver = NoVer
    /\ keyed \in {<<d1, d2>> : d1 \in Descriptors, d2 \in Descriptors}
    /\ proc = NoProc

\* what migrateAsset / uploadToS3, verifyAsset and downloadAsset derive from a
\* descriptor
Derived(d) ==
    [resource |-> d,
     written |-> UploadKey(d, S3Key(d)),
     probed |-> S3Key(d),
     verified |-> VerifyKey(d),
     staged |-> StagingPath(d)]

KeyApply ==
    /\ pc = "key"
    /\ pc' = "keyed"
    /\ keyed' = <<Derived(keyed[1]), Derived(keyed[2])>>
    /\ UNCHANGED <<migVars, catalog, s3, ver, proc>>

NextKey == KeyApply

SpecKey == InitKey /\ [][NextKey]_vars

(* ====================== entry points and exit codes ==================== *)
\* main, runVerification: requiredEnvVars
RequiredEnvVars ==
    {"CLOUDINARY_CLOUD_NAME", "CLOUDINARY_API_KEY", "CLOUDINARY_API_SECRET",
     "AWS_REGION", "AWS_ACCESS_KEY_ID", "AWS_SECRET_ACCESS_KEY",
     "AWS_S3_BUCKET_NAME"}

EntryPoints == {"migrate", "selective", "verify"}

\* requiredEnvVars.filter(varName => !process.env[varName])
MissingVars(env) == RequiredEnvVars \ env

\* main and runVerification validate the environment; runCLI of the selective
\* migrator constructs the migrator right after the argument loop
ValidatesEnv(entry) == entry \in {"migrate", "verify"}

\* node <entry point> with the variables of `env` set
InitExit ==
    /\ pc = "entry"
    /\ run = "first"
    /\ script = "migrate"
    /\ opts = NoOpts
    /\ argc = 0
    /\ sawForce = FALSE
    /\ skipExisting = TRUE
    /\ forceOverwrite = FALSE
    /\ concurrencyEnv = {}
    /\ maxResultsCfg = {}
    /\ numIds = 0
    /\ catalog = <<>>
    /\ cursor = 0
    /\ pendingCursor = 0
    /\ chunkIdx = 1
    /\ batch = <<>>
    /\ wstate = <<>>
    /\ migratedCount = 0
    /\ skippedCount = 0
    /\ failedCount = 0
    /\ totalCount = 0
    /\ failedAssets = <<>>
    /\ skippedAssets = <<>>
    /\ s3 = {}
    /\ files = {}
    /\ artifacts = NoArtifacts
    /\ calls = <<>>
    /\ returned = <<>>
    /\ probes = 0
    /\ writes = {}
    /\ loopError = "none"
    /\ probeError = FALSE
    /\ attempts = NoAttempts
    /\ progress = <<>>
    /\ firstRun = NoFirstRun
    /\ ver = NoVer
    /\ keyed = NoKeyed
    /\ proc \in {[NoProc EXCEPT !.entry = e, !.env = env] :
                    e \in EntryPoints, env \in SUBSET RequiredEnvVars}

exitFrame == <<migVars, catalog, s3, ver, keyed>>

\* main / runCLI / runVerification from the argument loop up to the call of
\* migrate() or verify()
EntryStart ==
    /\ pc = "entry"
    /\ IF ValidatesEnv(proc.entry) /\ MissingVars(proc.env) # {}
       THEN /\ pc' = "exit"
            /\ proc' = [proc EXCEPT !.code = {1}]
       ELSE /\ pc' = "run"
            /\ UNCHANGED proc
    /\ UNCHANGED exitFrame

\* migrate() / verify(): cloudinary.api.resources or resources_by_ids is called
CatalogRequest ==
    /\ pc = "run"
    /\ proc.requests < MaxCatalog
    /\ proc' = [proc EXCEPT !.requests = @ + 1]
    /\ UNCHANGED <<pc, exitFrame>>

\* an asset of the run fails (processBatch's .catch) or is found missing
AssetFails ==
    /\ pc = "run"
    /\ proc.requests > 0
    /\ ~proc.failures
    /\ proc' = [proc EXCEPT !.failures = TRUE]
    /\ UNCHANGED <<pc, exitFrame>>

\* migrate() / verify() returns after its summary and the event loop drains,
\* or it throws into main's catch / the .catch of runCLI() and
\* runVerification()
RunReturns(threw) ==
    /\ pc = "run"
    /\ proc.requests > 0
    /\ pc' = "exit"
    /\ proc' = [proc EXCEPT !.threw = threw, !.code = IF threw THEN {1} ELSE {0}]
    /\ UNCHANGED exitFrame

NextExit ==
    \/ EntryStart
    \/ CatalogRequest
    \/ AssetFails
    \/ \E threw \in BOOLEAN : RunReturns(threw)

SpecExit == InitExit /\ [][NextExit]_vars

(* ============================== claims ================================= *)
Sum3 == migratedCount + skippedCount + failedCount

\* C1: at the end of every migration run, migratedCount + skippedCount +
\* failedCount equals totalCount (stated as claimed; a run whose
\* MIGRATION_CONCURRENCY is below 1 counts a batch it never processes).
C1_AggregateAtRunEnd == pc = "done" => Sum3 = totalCount

FirstRunClean == firstRun.loopError = "none" /\ firstRun.failed = 0

C3_ForceOverwriteBypassesProbe ==
    (pc # "args" /\ (sawForce \/ forceOverwrite)) =>
        /\ forceOverwrite
        /\ probes = 0
        /\ skippedCount = 0
        /\ skippedAssets = <<>>
        /\ \A w \in DOMAIN wstate : wstate[w] \notin {"probing", "skipped"}

\* forceOverwrite with skipExisting = true (--force-overwrite --skip-existing):
\* a task writes over a key that is already at the destination
C3_Witness ==
    /\ pc = "batch"
    /\ forceOverwrite
    /\ skipExisting
    /\ \E w \in DOMAIN wstate :
          /\ wstate[w] = "uploading"
          /\ S3Has(S3Key(Resource(batch[w])))

\* C4: for every limit L >= 1, at most L tasks of the batch have started and
\* not produced an outcome.
C4_ConcurrencyBound ==
    (pc = "batch" /\ Concurrency >= 1) => ActiveCount <= Concurrency

C4_Witness ==
    /\ pc = "batch"
    /\ Concurrency <= MaxConcurrency
    /\ ActiveCount = Concurrency
    /\ \E w \in DOMAIN wstate : wstate[w] = "queued"

\* the pages a catalog of n assets is served in, max at a time
PagesOf(n, max) == IF n = 0 THEN 1 ELSE (n + max - 1) \div max

\* C6: over a catalog served in k pages that never errors, the listing loop
\* issues k requests, the first without a cursor and each later one with the
\* cursor the previous response returned, and stops after the response that
\* returns none.
C6_PaginationTermination ==
    (Mode \in {"full", "filtered"} /\ pc # "args") =>
        /\ Len(calls) <= PagesOf(Len(catalog), MaxResults)
        /\ \A i \in 1..Len(calls) :
              /\ calls[i].kind = "list"
              /\ calls[i].cursor = IF i = 1 THEN 0 ELSE returned[i - 1]
              /\ i > 1 => returned[i - 1] # 0
        /\ (pc = "done" /\ loopError = "none") =>
              /\ Len(calls) = PagesOf(Len(catalog), MaxResults)
              /\ returned[Len(returned)] = 0

C6_Witness ==
    /\ Mode \in {"full", "filtered"}
    /\ pc = "done"
    /\ loopError = "none"
    /\ Len(calls) = Len(catalog)
    /\ Len(calls) >= 2
    /\ calls[2].cursor # 0

RECURSIVE ConcatIds(_, _)
ConcatIds(cs, n) == IF n = 0 THEN <<>> ELSE ConcatIds(cs, n - 1) \o cs[n].ids

CeilDiv(n, d) == CHOOSE k \in 0..n : k * d >= n /\ (k - 1) * d < n

\* C7: for an explicit list of n >= 1 identifiers only direct lookups are
\* issued, each of at most 100 identifiers, their chunks concatenated in call
\* order are a prefix of the list, and at run end there were ceil(n/100)
\* calls whose chunks make up the whole list.
C7_ExplicitIdChunks ==
    (Mode = "byIds" /\ pc # "args") =>
        /\ \A i \in 1..Len(calls) :
              /\ calls[i].kind = "byIds"
              /\ Len(calls[i].ids) <= 100
              /\ Len(calls[i].ids) >= 1
        /\ Len(ConcatIds(calls, Len(calls))) <= numIds
        /\ ConcatIds(calls, Len(calls)) =
              [j \in 1..Len(ConcatIds(calls, Len(calls))) |-> j]
        /\ pc = "done" =>
              /\ Len(calls) = CeilDiv(numIds, 100)
              /\ Len(ConcatIds(calls, Len(calls))) = numIds

C7_Witness ==
    /\ Mode = "byIds"
    /\ pc = "done"
    /\ numIds = 101
    /\ Len(calls) = 2
    /\ Len(calls[1].ids) = 100
    /\ calls[2].ids = <<101>>

\* the assets a run without loop error enumerates
Enumerable ==
    IF Mode = "byIds" THEN {a \in Range(catalog) : IdPosition(a) <= numIds}
    ELSE Range(catalog)

\* C10: a task that fails leaves the run in its batch with the other tasks
\* untouched and no loop error, and a run that met no loop error has
\* enumerated and settled every asset, whatever number of them failed.
C10_AssetFailureNeverStopsRun ==
    /\ [][failedCount' > failedCount =>
            /\ pc' = "batch"
            /\ loopError' = loopError
            /\ \A w \in DOMAIN wstate :
                  wstate'[w] # wstate[w] => wstate'[w] = "failed"]_vars
    /\ []((pc = "done" /\ loopError = "none") =>
            /\ totalCount = Cardinality(Enumerable)
            /\ Sum3 = totalCount)

\* asset 1 failed in the first batch, asset 2 was migrated in the second
C10_Witness ==
    /\ pc = "done"
    /\ loopError = "none"
    /\ catalog = <<1, 2>>
    /\ Len(calls) = 2
    /\ failedCount = 1
    /\ failedAssets[1].public_id = Resource(1).public_id
    /\ migratedCount = 1

\* what the destination holds for an asset under the key the verifier probes
TrulyVerified(a) ==
    /\ S3Has(VerifyKey(Resource(a)))
    /\ SizeAt(VerifyKey(Resource(a))) = Resource(a).bytes
TrulyMismatched(a) ==
    /\ S3Has(VerifyKey(Resource(a)))
    /\ SizeAt(VerifyKey(Resource(a))) # Resource(a).bytes

\* C5 (stated as claimed): every asset whose probe was answered is recorded as
\* exactly one of Verified (present, sizes equal), SizeMismatch (present, sizes
\* differ) and Missing (absent), and in a pass without probe or catalog errors
\* the success rate is the share of Verified assets among those checked.
C5_VerificationClassification ==
    pc = "vdone" =>
        /\ \A o \in ver.outcomes : o.probe # "error" =>
              \/ o.verified /\ ~o.mismatch /\ ~o.missing /\ TrulyVerified(o.asset)
              \/ ~o.verified /\ o.mismatch /\ ~o.missing /\ TrulyMismatched(o.asset)
              \/ ~o.verified /\ ~o.mismatch /\ o.missing
                    /\ ~S3Has(VerifyKey(Resource(o.asset)))
        /\ (~ver.catalogError /\ ver.outcomes # {}
                /\ \A o \in ver.outcomes : o.probe # "error") =>
              ver.report.rate =
                  Rate(Cardinality({o \in ver.outcomes : TrulyVerified(o.asset)}),
                       Cardinality(ver.outcomes))

\* C8: two descriptors with the same identifier and format are written under
\* the same destination key, whatever their folder and size.
C8_TargetKeyDeterminism ==
    pc = "keyed" =>
        ((/\ keyed[1].resource.public_id = keyed[2].resource.public_id
          /\ keyed[1].resource.format = keyed[2].resource.format)
            => /\ keyed[1].written = keyed[2].written
               /\ keyed[1].probed = keyed[2].probed
               /\ keyed[1].written = keyed[1].probed)

C8_Witness ==
    /\ pc = "keyed"
    /\ keyed[1].resource.public_id = keyed[2].resource.public_id
    /\ keyed[1].resource.format = keyed[2].resource.format
    /\ keyed[1].resource.folder # keyed[2].resource.folder
    /\ keyed[1].resource.bytes # keyed[2].resource.bytes
    /\ keyed[1].written = keyed[2].written

\* C9 (stated as claimed): the verifier probes the key the migrator writes, so
\* an asset whose migrated object is at the destination, its probe answered,
\* is recorded Verified and not Missing.
C9_VerifierProbesMigratedKey ==
    \A o \in ver.outcomes :
        (o.probe # "error" /\ MigratedObject(o.asset) \in s3) =>
            (o.verified /\ ~o.missing)

\* C11 (stated as claimed): in every enumeration mode a failed catalog call is
\* the last catalog call of its run, which goes straight to the summary: once
\* a call has failed the run is at its end, and no later step of the run
\* issues a request.
C11_CatalogErrorEndsEnumeration ==
    /\ [](loopError = "catalog" => pc = "done")
    /\ [][loopError = "catalog" => Len(calls') <= Len(calls)]_vars

\* C12 (stated as claimed): every run that no signal interrupts reaches the
\* final summary (with its four counts), also after a catalog error.
C12_SummaryEventuallyPrinted ==
    (pc = "loop") ~> (pc \in {"done", "killed"})

\* C13 (stated as claimed): in the step in which a task that has created its
\* staging file (it was streaming into it or uploading it) produces its
\* outcome, the file is gone from downloads/.
C13_StagingReleasedAtOutcome ==
    [][\A w \in DOMAIN wstate :
          IF w \in DOMAIN wstate'
          THEN (wstate[w] \in {"streaming", "uploading"}
                    /\ wstate'[w] \in ResolvedStates)
                  => StagingPath(Resource(batch[w])) \notin files'
          ELSE TRUE]_vars

\* C14: under skipExisting and not forceOverwrite, a probe answered "present"
\* makes the task Skipped, with reason already_exists, in that very step, and
\* the step leaves the destination, downloads/ and the acknowledged writes as
\* they are; for a Skipped asset no content fetch and no destination write
\* was ever issued in the run.
C14_SkipPerformsNoTransfer ==
    /\ [](\A w \in DOMAIN wstate : wstate[w] = "skipped" =>
            /\ NeedsProbe(skipExisting, forceOverwrite)
            /\ attempts[batch[w]].answer = "found"
            /\ attempts[batch[w]].fetch = 0
            /\ attempts[batch[w]].put = 0
            /\ \A wr \in writes : wr.asset # batch[w])
    /\ [][\A w \in DOMAIN wstate :
            IF w \in DOMAIN wstate' /\ batch' = batch
            THEN /\ (wstate[w] = "probing" /\ attempts'[batch[w]].answer = "found")
                       => wstate'[w] = "skipped"
                 /\ (wstate[w] # "skipped" /\ wstate'[w] = "skipped") =>
                       /\ wstate[w] = "probing"
                       /\ s3' = s3
                       /\ files' = files
                       /\ writes' = writes
                       /\ skippedAssets' = Append(skippedAssets,
                              [public_id |-> Resource(batch[w]).public_id,
                               s3_key |-> S3Key(Resource(batch[w])),
                               reason |-> "already_exists"])
            ELSE TRUE]_vars

\* one asset of the batch is Skipped while another one of it was transferred
C14_Witness ==
    /\ pc = "batch"
    /\ \E w, v \in DOMAIN wstate :
          /\ wstate[w] = "skipped"
          /\ wstate[v] = "migrated"
          /\ writes = {[asset |-> batch[v], key |-> S3Key(Resource(batch[v]))]}

\* C15: a task is Skipped only after its probe succeeded; a probe answered
\* not-found or failing with any other error is taken as "absent": the task
\* goes on to the transfer (one content fetch when the asset has a URL) and
\* is never Skipped.
C15_ProbeErrorMeansAbsent ==
    \A w \in DOMAIN wstate :
        /\ wstate[w] = "skipped" => attempts[batch[w]].answer = "found"
        /\ attempts[batch[w]].answer \in {"notfound", "error"} =>
              /\ wstate[w] # "skipped"
              /\ wstate[w] \notin {"queued", "probing"}
              /\ Resource(batch[w]).url => attempts[batch[w]].fetch = 1

\* the key is at the destination, the probe failed, the asset was transferred
\* again
C15_Witness ==
    /\ pc = "batch"
    /\ \E w \in DOMAIN wstate :
          /\ attempts[batch[w]].answer = "error"
          /\ S3Key(Resource(batch[w])) \in firstRun.persisted
          /\ run = "second"
          /\ wstate[w] = "migrated"

Started(w) == wstate[w] \in InFlightStates \cup ResolvedStates

\* C16: with skipExisting = false no existence probe is issued and no task is
\* Skipped; every started task whose asset has a delivery URL has issued its
\* content fetch, every task whose staging succeeded has issued its
\* destination write, and a Migrated task's write is at the destination,
\* whether or not the key was there before.
C16_NoSkipExistingTransfersAll ==
    (pc \in {"loop", "batch", "done"} /\ ~skipExisting) =>
        /\ probes = 0
        /\ skippedCount = 0
        /\ skippedAssets = <<>>
        /\ \A a \in AssetIds :
              attempts[a].probe = 0 /\ attempts[a].answer = "none"
        /\ \A w \in DOMAIN wstate :
              /\ wstate[w] \notin {"probing", "skipped"}
              /\ (Started(w) /\ Resource(batch[w]).url) => attempts[batch[w]].fetch = 1
              /\ wstate[w] \in {"uploading", "migrated"} => attempts[batch[w]].put = 1
              /\ wstate[w] = "migrated" =>
                    /\ [asset |-> batch[w], key |-> S3Key(Resource(batch[w]))] \in writes
                    /\ MigratedObject(batch[w]) \in s3

\* --no-skip-existing without --force-overwrite: the write for a key that is
\* already at the destination has been issued
C16_Witness ==
    /\ pc = "batch"
    /\ ~skipExisting
    /\ ~forceOverwrite
    /\ writes = {}
    /\ \E w \in DOMAIN wstate :
          /\ wstate[w] = "uploading"
          /\ attempts[batch[w]].put = 1
          /\ S3Has(S3Key(Resource(batch[w])))

\* the requests issued so far, per asset
Requests(att) == [a \in AssetIds |-> <<att[a].probe, att[a].fetch, att[a].put>>]

\* the one-step moves of a task inside migrateAsset, all of them forward
TaskMoves ==
    {<<"queued", "probing">>, <<"queued", "fetching">>, <<"queued", "failed">>,
     <<"probing", "skipped">>, <<"probing", "fetching">>, <<"probing", "failed">>,
     <<"fetching", "streaming">>, <<"fetching", "failed">>,
     <<"streaming", "uploading">>, <<"streaming", "failed">>, <<"streaming", "hung">>,
     <<"uploading", "migrated">>, <<"uploading", "failed">>}

AssetOf(entry) == CHOOSE a \in AssetIds : Resource(a).public_id = entry.public_id

C19_RerunCompletesMigration ==
    (run = "second" /\ pc = "done" /\ loopError = "none" /\ failedCount = 0
            /\ ~probeError) =>
        /\ \A a \in Enumerable : S3Has(S3Key(Resource(a)))
        /\ \A wr \in writes :
              /\ wr.key \notin firstRun.persisted
              /\ wr.key = S3Key(Resource(wr.asset))
        /\ migratedCount = Cardinality(writes)
        /\ skippedCount =
              Cardinality({a \in Enumerable : S3Key(Resource(a)) \in firstRun.persisted})

\* the first run was interrupted with one asset persisted and the other one
\* not; the second run skipped the former and transferred the latter
C19_Witness ==
    /\ run = "second"
    /\ pc = "done"
    /\ loopError = "none"
    /\ failedCount = 0
    /\ ~probeError
    /\ firstRun.loopError = "killed"
    /\ \E a, b \in Range(catalog) :
          /\ S3Key(Resource(a)) \in firstRun.persisted
          /\ S3Key(Resource(b)) \notin firstRun.persisted
          /\ writes = {[asset |-> b, key |-> S3Key(Resource(b))]}
          /\ skippedCount = 1

\* C20 (stated as claimed): when a run has ended, the persisted failed list
\* names exactly the assets that failed in that run and the persisted skipped
\* list exactly the assets skipped in it (a list that was never written
\* counting as empty).
C20_ArtifactsMatchRun ==
    pc = "done" =>
        /\ artifacts.failed = Listed(failedAssets)
        /\ artifacts.skipped = Listed(skippedAssets)

\* C21: at the end of a pass the report file was written exactly when some
\* checked asset was found missing or of a different size.
C21_ReportWrittenIffDiscrepancy ==
    pc = "vdone" =>
        /\ ver.report.printed
        /\ ver.report.written <=> (\E o \in ver.outcomes : o.missing \/ o.mismatch)

\* the only discrepancy is a size mismatch: nothing is missing, the report is
\* written
C21_Witness ==
    /\ pc = "vdone"
    /\ ver.report.written
    /\ ver.missing = 0
    /\ Len(ver.sizeMismatches) = 1
    /\ Cardinality(ver.outcomes) = 2

\* C22: for every sample size n >= 0 given to the verifier at most n assets
\* are checked, every catalog request asks for at most min(100, n) assets, and
\* a request is outstanding only while fewer than n assets were processed.
C22_SampleSizeBoundsPass ==
    ver.sampleSize # {} =>
        /\ ver.processed + Len(ver.batch) <= SampleOf(ver)
        /\ \A k \in DOMAIN ver.calls :
                ver.calls[k].max_results <= Min(VerifyPageSize, SampleOf(ver))
        /\ (pc = "vbatch" => ver.processed < SampleOf(ver))

\* C30: at the end of a pass that enumerated without a catalog error the
\* report's total checked equals the number of assets enumerated.
C30_OneRecordPerEnumeratedAsset ==
    (pc = "vdone" /\ ~ver.catalogError) => ver.report.total = ver.processed

\* C24: every task that has started migrateAsset eventually produces its
\* outcome (migrated, skipped or failed), unless the process is killed first.
C24_EveryWorkerProducesOutcome ==
    \A w \in Tasks :
        (pc = "batch" /\ w \in DOMAIN wstate /\ wstate[w] \in InFlightStates)
            ~> (pc = "killed" \/ (w \in DOMAIN wstate /\ wstate[w] \in ResolvedStates))

\* C25: the loop leaves a batch only when every task of the batch has produced
\* its outcome, and a catalog request is issued only from the loop head, with
\* no task of an earlier batch left; list requests follow the cursors the
\* catalog returned and identifier requests follow the chunk order.
C25_NoCrossBatchOverlap ==
    [][/\ (pc = "batch" /\ pc' \in {"loop", "done"}) =>
              \A w \in DOMAIN wstate : wstate[w] \in ResolvedStates
       /\ Len(calls') > Len(calls) =>
              /\ pc = "loop"
              /\ wstate = <<>>
              /\ Len(calls') = Len(calls) + 1
              /\ \A k \in DOMAIN calls : calls'[k] = calls[k]
              /\ IF Mode = "byIds"
                 THEN calls'[Len(calls')].ids = Chunk(Len(calls'))
                 ELSE \A k \in DOMAIN calls :
                        calls[k].cursor < calls'[Len(calls')].cursor]_vars

\* the second batch is in flight after both outcomes of the first batch were
\* recorded
C25_Witness ==
    /\ pc = "batch"
    /\ Len(calls) = 2
    /\ migratedCount + skippedCount + failedCount = 1
    /\ \E w \in DOMAIN wstate : wstate[w] \in InFlightStates

\* C29: the step that completes a batch prints a progress line with the
\* running counts, in every enumeration mode.
C29_ProgressLineAfterEachBatch ==
    [][(pc = "batch" /\ pc' \in {"loop", "done"}) =>
            progress' = Append(progress,
                               [migrated |-> migratedCount, skipped |-> skippedCount,
                                failed |-> failedCount, total |-> totalCount])]_vars

\* C27: while a run with a valid concurrency limit is going on, the staging
\* files that exist in downloads/ number at most the concurrency limit.
C27_StagingFilesWithinLimit ==
    (pc \in {"loop", "batch", "done"} /\ ~PLimitThrows(Concurrency)) =>
        Cardinality(files) <= Concurrency

\* C28: every listing request of the migrators asks for at most 500 assets.
C28_PageSizeWithinCap ==
    \A k \in DOMAIN calls :
        calls[k].kind = "list" => calls[k].max_results <= CatalogPageCap

\* C23: an entry point started with a required variable missing issues no
\* catalog request and exits with a nonzero code; a run that completes without
\* throwing, with or without failed assets, exits with code 0.
C23_ExitCodes ==
    /\ MissingVars(proc.env) # {} /\ proc.entry \in EntryPoints =>
            /\ proc.requests = 0
            /\ pc = "exit" => proc.code # {0}
    /\ (pc = "exit" /\ MissingVars(proc.env) = {} /\ ~proc.threw) => proc.code = {0}

\* C26: a task waiting to start has a destination key that no request of this
\* run was issued for yet, the tasks of a batch have pairwise different keys,
\* and no key is written twice in a run.
C26_WorkersHaveDistinctKeys ==
    /\ \A v \in DOMAIN batch, w \in DOMAIN batch :
            v # w => S3Key(Resource(batch[v])) # S3Key(Resource(batch[w]))
    /\ \A w \in DOMAIN wstate :
            wstate[w] = "queued" =>
                /\ attempts[batch[w]].probe = 0
                /\ attempts[batch[w]].fetch = 0
                /\ attempts[batch[w]].put = 0
    /\ \A a \in DOMAIN attempts : attempts[a].put <= 1

C32_StagingPathsDistinct ==
    \A v \in DOMAIN wstate, w \in DOMAIN wstate :
        (/\ v # w
         /\ wstate[v] \in {"streaming", "uploading", "hung"}
         /\ wstate[w] \in {"streaming", "uploading", "hung"}) =>
            StagingPath(Resource(batch[v])) # StagingPath(Resource(batch[w]))

\* C33: a task counted migrated has its destination write acknowledged in this
\* run, and no asset of the failed list was written by this run.
C33_OutcomeMatchesWrite ==
    /\ \A w \in DOMAIN wstate :
            wstate[w] = "migrated" =>
                [asset |-> batch[w], key |-> S3Key(Resource(batch[w]))] \in writes
    /\ \A i \in 1..Len(failedAssets), wr \in writes :
            Resource(wr.asset).public_id # failedAssets[i].public_id

\* C34: the report's verdict is "completed successfully" only when at least
\* one asset was checked and none was missing or of a different size; a size
\* mismatch gives the "found issues" verdict.
C34_SuccessVerdictMeansClean ==
    pc = "vdone" =>
        /\ ver.report.verdict = "success" =>
                /\ ver.outcomes # {}
                /\ \A o \in ver.outcomes : ~o.missing /\ ~o.mismatch
        /\ (\E o \in ver.outcomes : o.mismatch) => ver.report.verdict = "issues"

\* C35: at the end of a run over an explicit identifier list every requested
\* identifier is counted as migrated, skipped or failed.
C35_EveryIdentifierAccounted ==
    (pc = "done" /\ Mode = "byIds") =>
        migratedCount + skippedCount + failedCount = numIds

\* C36: whenever no task is in flight the failed list has failedCount entries
\* and the skipped list skippedCount entries, no asset is in both lists and
\* none is twice in one list.
C36_ListsMatchCounts ==
    ActiveCount = 0 =>
        /\ Len(failedAssets) = failedCount
        /\ Len(skippedAssets) = skippedCount
        /\ \A i \in 1..Len(failedAssets), j \in 1..Len(skippedAssets) :
                failedAssets[i].public_id # skippedAssets[j].public_id
        /\ \A i \in 1..Len(failedAssets), j \in 1..Len(failedAssets) :
                i # j => failedAssets[i].public_id # failedAssets[j].public_id
        /\ \A i \in 1..Len(skippedAssets), j \in 1..Len(skippedAssets) :
                i # j => skippedAssets[i].public_id # skippedAssets[j].public_id

\* a run has ended with one asset skipped and another one failed
C36_Witness ==
    /\ pc = "done"
    /\ ActiveCount = 0
    /\ failedCount = 1
    /\ skippedCount = 1
    /\ Len(failedAssets) = 1
    /\ Len(skippedAssets) = 1
====
